---------------------------- MODULE Spec2Model ----------------------------
(***************************************************************************)
(* Model of app.py, the wastewater treatment advisor dashboard.            *)
(*                                                                         *)
(* The program is a static lookup table (treatment_db), three handlers     *)
(* (recommend_treatment, explain_recommendation, extract_pdf_text) and the *)
(* dispatch table that wires them to the panels of the dashboard.          *)
(*                                                                         *)
(* Representation.                                                         *)
(*   - A Python str whose characters matter (the pollutant, the text of a  *)
(*     PDF) is a sequence of one-character strings.                        *)
(*   - A Python float with two decimals is the integer number of its       *)
(*     hundredths: 0.8 is 80, a flow rate of 100 is 10000.                 *)
(*   - Python's None, and every value a panel can show, is a record with   *)
(*     a "kind" field.                                                     *)
(***************************************************************************)
EXTENDS Integers, Sequences, FiniteSets, TLC

VARIABLES
    treatment_db,     \* the module-level dict
    output_text,      \* gr.HTML panel
    output_plot,      \* gr.Plot panel
    output_table,     \* gr.Dataframe panel
    explanation_out,  \* gr.Markdown panel
    pdf_input,        \* gr.File component: the value the change event carries
    pdf_output,       \* gr.Textbox panel "Extracted Guideline"
    request,          \* the chat-completion request explain_recommendation waits on
    attempts,         \* requests issued by the current/last explain_recommendation call
    last              \* the handler invocation that completed last: its inputs and outcome

vars == <<treatment_db, output_text, output_plot, output_table, explanation_out,
          pdf_input, pdf_output, request, attempts, last>>

-----------------------------------------------------------------------------
(* Values *)

None == [kind |-> "None"]

Num(v) == [kind |-> "num", v |-> v]

\* round(x, 2) and the two-decimal literals of treatment_db: values are kept in hundredths
Hundred == 100

\* text[:2000]
CharBudget == 2000

\* pages of a modelled document
MaxPages == 2

Min(a, b) == IF a <= b THEN a ELSE b

Abs(x) == IF x < 0 THEN -x ELSE x

-----------------------------------------------------------------------------
(* str.lower, str.strip, str.capitalize on character sequences *)

UpperChars == <<"A", "C", "D", "E", "H", "I", "L", "M", "N", "O", "R", "S", "U", "Y">>

LowerChars == <<"a", "c", "d", "e", "h", "i", "l", "m", "n", "o", "r", "s", "u", "y">>

Whitespace == {" ", "\t", "\n"}

LowerChar(c) ==
    IF \E i \in 1..Len(UpperChars) : UpperChars[i] = c
    THEN LowerChars[CHOOSE i \in 1..Len(UpperChars) : UpperChars[i] = c]
    ELSE c

UpperChar(c) ==
    IF \E i \in 1..Len(LowerChars) : LowerChars[i] = c
    THEN UpperChars[CHOOSE i \in 1..Len(LowerChars) : LowerChars[i] = c]
    ELSE c

Lower(s) == [i \in 1..Len(s) |-> LowerChar(s[i])]

RECURSIVE LStrip(_)
LStrip(s) == IF s # <<>> /\ Head(s) \in Whitespace THEN LStrip(Tail(s)) ELSE s

RECURSIVE RStrip(_)
RStrip(s) ==
    IF s # <<>> /\ s[Len(s)] \in Whitespace THEN RStrip(SubSeq(s, 1, Len(s) - 1)) ELSE s

Strip(s) == RStrip(LStrip(s))

Capitalize(s) ==
    [i \in 1..Len(s) |-> IF i = 1 THEN UpperChar(s[i]) ELSE LowerChar(s[i])]

\* pollutant.lower().strip()
Normalize(pollutant) == Strip(Lower(pollutant))

-----------------------------------------------------------------------------
(* treatment_db: costs and sludge rates in hundredths; the en dash of the source's *)
(* "Coagulation-Filtration" is written as a hyphen                               *)

Lead == <<"l", "e", "a", "d">>

Arsenic == <<"a", "r", "s", "e", "n", "i", "c">>

Chromium == <<"c", "h", "r", "o", "m", "i", "u", "m">>

LeadRecord ==
    [methods |-> <<"Chemical Precipitation", "Ion Exchange", "Membrane Filtration">>,
     efficiency |-> <<85, 90, 95>>,
     details |-> "Lead can be effectively treated using lime precipitation, ion-exchange resins, or RO membranes.",
     cost_per_m3 |-> <<80, 150, 220>>,
     sludge_kg_per_m3 |-> <<12, 5, 2>>]

ArsenicRecord ==
    [methods |-> <<"Coagulation-Filtration", "Adsorption", "Reverse Osmosis">>,
     efficiency |-> <<80, 88, 96>>,
     details |-> "Arsenic removal requires multi-barrier approaches including iron-based adsorbents and RO systems.",
     cost_per_m3 |-> <<90, 120, 250>>,
     sludge_kg_per_m3 |-> <<15, 7, 3>>]

ChromiumRecord ==
    [methods |-> <<"Reduction + Precipitation", "Activated Carbon Adsorption", "Electrochemical Treatment">>,
     efficiency |-> <<82, 87, 93>>,
     details |-> "Chromium (VI) is reduced to Cr (III) before precipitation, or handled with advanced adsorption/EC.",
     cost_per_m3 |-> <<100, 140, 200>>,
     sludge_kg_per_m3 |-> <<18, 6, 4>>]

TreatmentDbLiteral ==
    (Lead :> LeadRecord) @@ (Arsenic :> ArsenicRecord) @@ (Chromium :> ChromiumRecord)

-----------------------------------------------------------------------------
(* recommend_treatment *)

\* round(x, 2) of a product x = unit * flow_rate, both in hundredths, so that p is x in
\* ten-thousandths and the result is in hundredths.  Python rounds the binary double
\* nearest to the product: away from a tie that is the nearest hundredth; on an exact
\* decimal tie the double lies on either side of it (round(0.05 * 0.5, 2) is 0.03,
\* round(0.15 * 0.5, 2) is 0.07), so both neighbours are possible outcomes.
Round2_Truncating(p) == {p \div Hundred}

Round2(p) ==
    LET lo == p \div Hundred
        r  == p % Hundred
    IN  IF 2 * r < Hundred THEN {lo}
        ELSE IF 2 * r > Hundred THEN {lo + 1}
        ELSE {lo, lo + 1}

\* [round(u * flow_rate, 2) for u in units]: the lists this comprehension can produce
RECURSIVE DailyColumn(_, _)
DailyColumn(units, flow) ==
    IF units = <<>> THEN {<<>>}
    ELSE {<<d>> \o rest : d \in Round2(Head(units) * flow),
                          rest \in DailyColumn(Tail(units), flow)}

\* pd.DataFrame(data) raises ValueError unless all columns have the same length
SameLength(rec) ==
    /\ Len(rec.efficiency) = Len(rec.methods)
    /\ Len(rec.cost_per_m3) = Len(rec.methods)
    /\ Len(rec.sludge_kg_per_m3) = Len(rec.methods)

NoDataText(pollutant) == [kind |-> "no_data", pollutant |-> pollutant]

SummaryText(pollutant, rec, flow_rate) ==
    [kind |-> "summary", heading |-> Capitalize(pollutant), methods |-> rec.methods,
     efficiency |-> rec.efficiency, details |-> rec.details, flow_rate |-> flow_rate]

BarChart(pollutant, rec) ==
    [kind |-> "figure", x |-> rec.methods, height |-> rec.efficiency,
     title |-> Capitalize(pollutant), ylim |-> <<0, 100>>]

DataFrame_Reversed(rec, daily_cost, daily_sludge) ==
    [kind |-> "DataFrame",
     Method |-> rec.methods,
     Efficiency |-> [i \in 1..Len(rec.efficiency) |->
                        rec.efficiency[Len(rec.efficiency) + 1 - i]],
     Cost |-> rec.cost_per_m3,
     DailyCost |-> daily_cost,
     Sludge |-> rec.sludge_kg_per_m3,
     DailySludge |-> daily_sludge]

DataFrame(rec, daily_cost, daily_sludge) ==
    [kind |-> "DataFrame",
     Method |-> rec.methods,
     Efficiency |-> rec.efficiency,
     Cost |-> rec.cost_per_m3,
     DailyCost |-> daily_cost,
     Sludge |-> rec.sludge_kg_per_m3,
     DailySludge |-> daily_sludge]

Returned3(text, fig, df) == [outcome |-> "returned", text |-> text, fig |-> fig, df |-> df]

Raised(exc) == [outcome |-> "raised", exc |-> exc]

\* The outcomes of recommend_treatment(pollutant, flow_rate) with the table db.
\* ax.bar raises ValueError when methods and efficiency differ in length, c * flow_rate
\* raises TypeError when flow_rate is None (an empty gr.Number), and pd.DataFrame raises
\* ValueError when the columns differ in length.
recommend_treatment_NoMembershipTest(db, pollutant, flow_rate) ==
    LET p   == Normalize(pollutant)
        rec == IF p \in DOMAIN db THEN db[p] ELSE db[Lead]
    IN  IF flow_rate = None THEN {Raised("TypeError")}
        ELSE {Returned3(SummaryText(p, rec, flow_rate), BarChart(p, rec),
                        DataFrame(rec, dc, ds)) :
                 dc \in DailyColumn(rec.cost_per_m3, flow_rate.v),
                 ds \in DailyColumn(rec.sludge_kg_per_m3, flow_rate.v)}

recommend_treatment(db, pollutant, flow_rate) ==
    LET p == Normalize(pollutant)
    IN  IF p \notin DOMAIN db
        THEN {Returned3(NoDataText(p), None, None)}
        ELSE LET rec == db[p]
             IN  IF Len(rec.efficiency) # Len(rec.methods) THEN {Raised("ValueError")}
                 ELSE IF flow_rate = None THEN {Raised("TypeError")}
                 ELSE IF ~SameLength(rec) THEN {Raised("ValueError")}
                 ELSE {Returned3(SummaryText(p, rec, flow_rate), BarChart(p, rec),
                                 DataFrame(rec, dc, ds)) :
                          dc \in DailyColumn(rec.cost_per_m3, flow_rate.v),
                          ds \in DailyColumn(rec.sludge_kg_per_m3, flow_rate.v)}

-----------------------------------------------------------------------------
(* explain_recommendation *)

\* groq_client.chat.completions.create(...): the request sent to the hosted model
\* (temperature 0.6 is kept in tenths)
ChatRequest(pollutant, flow_rate) ==
    [kind |-> "chat.completions.create",
     model |-> "llama-3.1-8b-instant",
     role |-> "user",
     content |-> [pollutant |-> pollutant, flow_rate |-> flow_rate],
     temperature |-> 6,
     max_tokens |-> 500]

Markdown(content) == [kind |-> "markdown", content |-> content]

\* f"<warning sign> AI explanation unavailable: {e}"
Unavailable(e) ==
    [kind |-> "markdown_warning", marker |-> "AI explanation unavailable: ", error |-> e]

-----------------------------------------------------------------------------
(* extract_pdf_text *)

NoFileUploaded ==
    <<"N", "o", " ", "f", "i", "l", "e", " ", "u", "p", "l", "o", "a", "d", "e", "d", ".">>

Ellipsis == <<".", ".", ".">>

\* A gr.File value: None (nothing uploaded, or the upload cleared) or a file path;
\* doc is the document PdfReader finds at that path.
FilePath(empty, doc) == [kind |-> "filepath", empty |-> empty, doc |-> doc]

\* not pdf_file
Falsy_OnlyNone(pdf_file) == pdf_file = None

Falsy(pdf_file) == pdf_file = None \/ pdf_file.empty

\* a document: whether PdfReader can open it, and what extract_text gives for each page
Document(readable, pages) == [readable |-> readable, pages |-> pages]

PageOf(chars) == [kind |-> "text", chars |-> chars]

PageNone == [kind |-> "None"]

PageError == [kind |-> "error"]

\* page.extract_text() or ""
TextOrEmpty(page) == IF page.kind = "text" THEN page.chars ELSE <<>>

\* text = ""; for page in reader.pages: text += page.extract_text() or ""
RECURSIVE ConcatPages(_)
ConcatPages(pages) ==
    IF pages = <<>> THEN <<>> ELSE TextOrEmpty(Head(pages)) \o ConcatPages(Tail(pages))

\* text[:2000] + "..."
Truncate_Tail(text) ==
    SubSeq(text, Len(text) - Min(CharBudget, Len(text)) + 1, Len(text)) \o Ellipsis

Truncate(text) == SubSeq(text, 1, Min(CharBudget, Len(text))) \o Ellipsis

Returned1(value, parser) == [outcome |-> "returned", value |-> value, parser |-> parser]

RaisedIn(exc, parser) == [outcome |-> "raised", exc |-> exc, parser |-> parser]

\* The outcome of extract_pdf_text(pdf_file); parser tells whether PdfReader was invoked
extract_pdf_text_CatchesAll(pdf_file) ==
    IF Falsy(pdf_file) THEN Returned1(NoFileUploaded, FALSE)
    ELSE IF ~pdf_file.doc.readable \/ \E i \in 1..Len(pdf_file.doc.pages) :
                                          pdf_file.doc.pages[i].kind = "error"
         THEN Returned1(<<"P", "d", "f", "R", "e", "a", "d", "E", "r", "r", "o", "r">>, TRUE)
         ELSE Returned1(Truncate(ConcatPages(pdf_file.doc.pages)), TRUE)

extract_pdf_text(pdf_file) ==
    IF Falsy(pdf_file) THEN Returned1(NoFileUploaded, FALSE)
    ELSE IF ~pdf_file.doc.readable THEN RaisedIn("PdfReadError", TRUE)
    ELSE IF \E i \in 1..Len(pdf_file.doc.pages) : pdf_file.doc.pages[i].kind = "error"
         THEN RaisedIn("PdfReadError", TRUE)
         ELSE Returned1(Truncate(ConcatPages(pdf_file.doc.pages)), TRUE)

-----------------------------------------------------------------------------
(* Inputs *)

PollutantInputs ==
    { <<" ", "L", "e", "a", "d", " ">>,
      <<"A", "R", "S", "E", "N", "I", "C", "\n">>,
      <<"\t", "c", "h", "r", "o", "m", "i", "u", "m">>,
      <<"M", "e", "r", "c", "u", "r", "y">>,
      <<"l", "e", " ", "a", "d">> }

\* None (the number field left empty), 0, 100, -0.26 and 0.07 m3/day
FlowRates == {None, Num(0), Num(10000), Num(-26), Num(7)}

\* the inputs of the explanation button's behaviours
ExplainPollutants == {<<" ", "L", "e", "a", "d", " ">>, <<"M", "e", "r", "c", "u", "r", "y">>}

ExplainFlowRates == {None, Num(10000)}

\* what the hosted model answers: response.choices, each choice's message.content
Responses ==
    { [choices |-> <<>>],
      [choices |-> <<"Use ion exchange.", "Use RO.">>] }

\* subclasses of Exception the client raises (network, auth, quota)
Exceptions == {"APIConnectionError", "AuthenticationError", "RateLimitError"}

Glyphs == <<"a", "b", "c">>

\* a text of n characters whose i-th character depends on i
TextOf(n, k) == [i \in 1..n |-> Glyphs[((i + k) % 3) + 1]]

PageChoices ==
    { PageNone, PageError, PageOf(TextOf(1, 0)),
      PageOf(TextOf(CharBudget - 1, 1)), PageOf(TextOf(CharBudget + 1, 2)) }

RECURSIVE PageLists(_)
PageLists(n) ==
    IF n = 0 THEN {<<>>}
    ELSE LET shorter == PageLists(n - 1)
         IN  shorter \cup {Append(ps, pg) : ps \in {q \in shorter : Len(q) = n - 1},
                                            pg \in PageChoices}

EmptyPath == FilePath(TRUE, Document(FALSE, <<>>))

CorruptFile == FilePath(FALSE, Document(FALSE, <<>>))

\* every upload of at most MaxPages pages
AllFiles ==
    {None, EmptyPath, CorruptFile}
        \cup {FilePath(FALSE, Document(TRUE, ps)) : ps \in PageLists(MaxPages)}

\* the uploads of the dashboard's behaviours
SampleFiles ==
    { None, EmptyPath, CorruptFile,
      FilePath(FALSE, Document(TRUE, <<PageOf(TextOf(1, 0)), PageNone>>)),
      FilePath(FALSE, Document(TRUE, <<PageOf(TextOf(1, 0)), PageError>>)) }

-----------------------------------------------------------------------------
(* The dashboard *)

Init ==
    /\ treatment_db = TreatmentDbLiteral
    /\ output_text = None
    /\ output_plot = None
    /\ output_table = None
    /\ explanation_out = None
    /\ pdf_input = None
    /\ pdf_output = <<>>
    /\ request = None
    /\ attempts = 0
    /\ last = [handler |-> "none"]

\* btn.click(recommend_treatment, inputs=[pollutant, flow_rate],
\*           outputs=[output_text, output_plot, output_table])
RecommendClick_SortsInPlace(pollutant, flow_rate) ==
    \E res \in recommend_treatment(treatment_db, pollutant, flow_rate) :
        /\ IF res.outcome = "returned"
           THEN /\ output_text' = res.text
                /\ output_plot' = res.fig
                /\ output_table' = res.df
           ELSE UNCHANGED <<output_text, output_plot, output_table>>
        /\ last' = [handler |-> "recommend_treatment", pollutant |-> pollutant,
                    flow_rate |-> flow_rate, outcome |-> res.outcome]
        /\ treatment_db' =
               IF Normalize(pollutant) \in DOMAIN treatment_db
               THEN [treatment_db EXCEPT ![Normalize(pollutant)].efficiency =
                        [i \in 1..Len(@) |-> @[Len(@) + 1 - i]]]
               ELSE treatment_db
        /\ UNCHANGED <<explanation_out, pdf_input, pdf_output, request, attempts>>

RecommendClick_KeepsOnNone(pollutant, flow_rate) ==
    \E res \in recommend_treatment(treatment_db, pollutant, flow_rate) :
        /\ IF res.outcome = "returned"
           THEN /\ output_text' = res.text
                /\ output_plot' = IF res.fig = None THEN output_plot ELSE res.fig
                /\ output_table' = IF res.df = None THEN output_table ELSE res.df
           ELSE UNCHANGED <<output_text, output_plot, output_table>>
        /\ last' = [handler |-> "recommend_treatment", pollutant |-> pollutant,
                    flow_rate |-> flow_rate, outcome |-> res.outcome]
        /\ UNCHANGED <<treatment_db, explanation_out, pdf_input, pdf_output,
                       request, attempts>>

RecommendClick(pollutant, flow_rate) ==
    \E res \in recommend_treatment(treatment_db, pollutant, flow_rate) :
        /\ IF res.outcome = "returned"
           THEN /\ output_text' = res.text
                /\ output_plot' = res.fig
                /\ output_table' = res.df
           ELSE UNCHANGED <<output_text, output_plot, output_table>>
        /\ last' = [handler |-> "recommend_treatment", pollutant |-> pollutant,
                    flow_rate |-> flow_rate, outcome |-> res.outcome]
        /\ UNCHANGED <<treatment_db, explanation_out, pdf_input, pdf_output,
                       request, attempts>>

\* explain_btn.click(explain_recommendation, ...): the handler issues its request and
\* blocks on it; the button's handler is not entered again while it is blocked
ExplainClick(pollutant, flow_rate) ==
    /\ request = None
    /\ request' = ChatRequest(pollutant, flow_rate)
    /\ attempts' = 1
    /\ UNCHANGED <<treatment_db, output_text, output_plot, output_table,
                   explanation_out, pdf_input, pdf_output, last>>

\* the request is answered: return response.choices[0].message.content, where
\* choices[0] of an empty list raises IndexError inside the try block
RemoteReturns(response) ==
    /\ request # None
    /\ explanation_out' =
           IF response.choices = <<>> THEN Unavailable("IndexError")
           ELSE Markdown(response.choices[1])
    /\ request' = None
    /\ last' = [handler |-> "explain_recommendation", outcome |-> "returned",
                cause |-> IF response.choices = <<>> THEN "IndexError" ELSE "response"]
    /\ UNCHANGED <<treatment_db, output_text, output_plot, output_table,
                   pdf_input, pdf_output, attempts>>

\* the request fails: except Exception as e: return f"... unavailable: {e}"
RemoteRaises_Propagates(e) ==
    /\ request # None
    /\ request' = None
    /\ last' = [handler |-> "explain_recommendation", outcome |-> "raised", cause |-> e]
    /\ UNCHANGED <<treatment_db, output_text, output_plot, output_table,
                   explanation_out, pdf_input, pdf_output, attempts>>

RemoteRaises_Retries(e) ==
    /\ request # None
    /\ IF attempts < 2
       THEN /\ attempts' = attempts + 1
            /\ UNCHANGED <<request, explanation_out, last>>
       ELSE /\ explanation_out' = Unavailable(e)
            /\ request' = None
            /\ last' = [handler |-> "explain_recommendation", outcome |-> "returned",
                        cause |-> e]
            /\ UNCHANGED attempts
    /\ UNCHANGED <<treatment_db, output_text, output_plot, output_table,
                   pdf_input, pdf_output>>

RemoteRaises(e) ==
    /\ request # None
    /\ explanation_out' = Unavailable(e)
    /\ request' = None
    /\ last' = [handler |-> "explain_recommendation", outcome |-> "returned", cause |-> e]
    /\ UNCHANGED <<treatment_db, output_text, output_plot, output_table,
                   pdf_input, pdf_output, attempts>>

\* pdf_input.change(extract_pdf_text, inputs=pdf_input, outputs=pdf_output)
PdfInputChange(file) ==
    /\ file # pdf_input
    /\ pdf_input' = file
    /\ LET res == extract_pdf_text(file)
       IN  /\ pdf_output' = IF res.outcome = "returned" THEN res.value ELSE pdf_output
           /\ last' = [handler |-> "extract_pdf_text", outcome |-> res.outcome,
                       parser |-> res.parser]
    /\ UNCHANGED <<treatment_db, output_text, output_plot, output_table,
                   explanation_out, request, attempts>>

Next ==
    \/ \E p \in PollutantInputs, f \in FlowRates : RecommendClick(p, f)
    \/ \E p \in ExplainPollutants, f \in ExplainFlowRates : ExplainClick(p, f)
    \/ \E r \in Responses : RemoteReturns(r)
    \/ \E e \in Exceptions : RemoteRaises(e)
    \/ \E file \in SampleFiles : PdfInputChange(file)

Spec == Init /\ [][Next]_vars

\* extract_pdf_text alone, over every upload of at most MaxPages pages
NextPdf == \E file \in AllFiles : PdfInputChange(file)

SpecPdf == Init /\ [][NextPdf]_vars

-----------------------------------------------------------------------------
(* Properties *)

Keys == {Lead, Arsenic, Chromium}

\* raw is key up to letter case, between leading and trailing whitespace
IsKeyInput(raw, key) ==
    \E a \in 0..Len(raw) :
        /\ a + Len(key) <= Len(raw)
        /\ \A i \in 1..a : raw[i] \in Whitespace
        /\ \A i \in (a + Len(key) + 1)..Len(raw) : raw[i] \in Whitespace
        /\ \A i \in 1..Len(key) :
               \/ raw[a + i] = key[i]
               \/ \E j \in 1..Len(UpperChars) :
                      UpperChars[j] = raw[a + i] /\ LowerChars[j] = key[i]

Known(raw) == \E key \in Keys : IsKeyInput(raw, key)

LastIs(handler) == last.handler = handler

NearestHundredth(d, unit, flow) == 2 * Abs(Hundred * d - unit * flow) <= Hundred

\* C2: for a known key, every method i and every numeric flow rate (zero and negative
\* included), Daily Cost[i] is cost_per_m3[i] * flow_rate rounded to two decimals and
\* Sludge (kg/day)[i] is sludge_kg_per_m3[i] * flow_rate rounded to two decimals; unit
\* cost 0.8 at flow rate 100 gives 80.0.
C2_DailyValuesRounded ==
    \A key \in Keys :
        (LastIs("recommend_treatment") /\ IsKeyInput(last.pollutant, key)
            /\ last.flow_rate # None)
        => /\ last.outcome = "returned"
           /\ output_table.kind = "DataFrame"
           /\ DOMAIN output_table.DailyCost = DOMAIN TreatmentDbLiteral[key].cost_per_m3
           /\ DOMAIN output_table.DailySludge =
                  DOMAIN TreatmentDbLiteral[key].sludge_kg_per_m3
           /\ \A i \in DOMAIN TreatmentDbLiteral[key].cost_per_m3 :
                  /\ NearestHundredth(output_table.DailyCost[i],
                                      TreatmentDbLiteral[key].cost_per_m3[i],
                                      last.flow_rate.v)
                  /\ NearestHundredth(output_table.DailySludge[i],
                                      TreatmentDbLiteral[key].sludge_kg_per_m3[i],
                                      last.flow_rate.v)
           /\ (key = Lead /\ last.flow_rate = Num(10000))
                  => output_table.DailyCost[1] = 8000

C2_Witness ==
    /\ LastIs("recommend_treatment")
    /\ last.pollutant = <<" ", "L", "e", "a", "d", " ">>
    /\ last.flow_rate = Num(-26)
    /\ output_table.kind = "DataFrame"
    /\ output_table.DailyCost = <<-21, -39, -57>>
    /\ output_table.DailySludge = <<-3, -1, -1>>

\* C3: for a pollutant whose lower-cased, trimmed form is not a key, and any flow rate
\* (the empty number field included), recommend_treatment returns the "no data" message
\* for that form, no chart and no table, and does not raise.
C3_UnknownPollutantNoData ==
    (LastIs("recommend_treatment") /\ ~Known(last.pollutant))
    => /\ last.outcome = "returned"
       /\ output_text.kind = "no_data"
       /\ last.pollutant = <<"M", "e", "r", "c", "u", "r", "y">>
              => output_text.pollutant = <<"m", "e", "r", "c", "u", "r", "y">>
       /\ last.pollutant = <<"l", "e", " ", "a", "d">>
              => output_text.pollutant = <<"l", "e", " ", "a", "d">>
       /\ output_plot = None
       /\ output_table = None

C3_Witness ==
    /\ LastIs("recommend_treatment")
    /\ last.pollutant = <<"M", "e", "r", "c", "u", "r", "y">>
    /\ last.flow_rate = None
    /\ output_text = [kind |-> "no_data", pollutant |-> <<"m", "e", "r", "c", "u", "r", "y">>]
    /\ output_table = None

\* C4: when the chat-completion call raises an exception, explain_recommendation does
\* not propagate it: it returns the warning marker followed by the exception text.
C4_FailureBecomesWarning ==
    (LastIs("explain_recommendation") /\ last.cause \in Exceptions)
    => /\ last.outcome = "returned"
       /\ explanation_out.kind = "markdown_warning"
       /\ explanation_out.marker = "AI explanation unavailable: "
       /\ explanation_out.error = last.cause

C4_Witness ==
    /\ LastIs("explain_recommendation")
    /\ last.cause = "RateLimitError"
    /\ explanation_out.kind = "markdown_warning"
    /\ explanation_out.error = "RateLimitError"
    /\ request = None

\* the uploaded file is opened and every page's text is extracted without an exception
Parses(file) ==
    /\ file # None
    /\ ~file.empty
    /\ file.doc.readable
    /\ \A k \in 1..Len(file.doc.pages) : file.doc.pages[k].kind # "error"

PageLen(page) == IF page.kind = "text" THEN Len(page.chars) ELSE 0

\* the number of characters of the pages before page k
RECURSIVE CharsBefore(_, _)
CharsBefore(pages, k) ==
    IF k <= 1 THEN 0 ELSE CharsBefore(pages, k - 1) + PageLen(pages[k - 1])

\* C5: for an uploaded document that parses, extract_pdf_text returns the first
\* min(2000, n) characters of the page-order concatenation of the pages' texts (a page
\* without text contributing nothing, n the concatenation's length) followed by "...";
\* the result is never longer than 2000 characters plus the marker.
C5_TruncatedToBudget ==
    (LastIs("extract_pdf_text") /\ Parses(pdf_input))
    => LET pages == pdf_input.doc.pages
           n     == CharsBefore(pages, Len(pages) + 1)
           kept  == IF n < 2000 THEN n ELSE 2000
       IN  /\ last.outcome = "returned"
           /\ Len(pdf_output) = kept + 3
           /\ Len(pdf_output) <= 2003
           /\ \A j \in 1..3 : pdf_output[kept + j] = "."
           /\ \A k \in 1..Len(pages) :
                  \A o \in 1..PageLen(pages[k]) :
                      CharsBefore(pages, k) + o <= kept
                      => pdf_output[CharsBefore(pages, k) + o] = pages[k].chars[o]

C5_Witness ==
    /\ LastIs("extract_pdf_text")
    /\ Parses(pdf_input)
    /\ Len(pdf_input.doc.pages) = 2
    /\ PageLen(pdf_input.doc.pages[1]) = 1999
    /\ PageLen(pdf_input.doc.pages[2]) = 2001
    /\ Len(pdf_output) = 2003

\* C6: when the file input is empty (no file, or the upload cleared), extract_pdf_text
\* returns "No file uploaded." and the PDF parser is not invoked.
C6_EmptyUploadPlaceholder ==
    (LastIs("extract_pdf_text") /\ (pdf_input = None \/ pdf_input.empty))
    => /\ last.outcome = "returned"
       /\ ~last.parser
       /\ pdf_output =
              <<"N", "o", " ", "f", "i", "l", "e", " ", "u", "p", "l", "o", "a", "d", "e", "d", ".">>

C6_Witness ==
    /\ LastIs("extract_pdf_text")
    /\ pdf_input # None
    /\ pdf_input.empty
    /\ ~last.parser
    /\ Len(pdf_output) = 17

\* C7 as claimed: each of the three failure kinds becomes a user-visible string; when
\* the PDF parser fails opening the file or extracting a page, extract_pdf_text returns
\* a string instead of letting the exception propagate.
C7_ParserFailureBecomesString ==
    (LastIs("extract_pdf_text") /\ pdf_input # None /\ ~pdf_input.empty
        /\ ~Parses(pdf_input))
    => last.outcome = "returned"

\* C7 amended: a lookup failure and a failure of the chat-completion call become
\* user-visible strings where they occur; a failure of the PDF parser (opening the file
\* or extracting a page) is not caught: the exception propagates out of
\* extract_pdf_text, which returns no string.
C7_ParserFailurePropagates ==
    /\ (LastIs("recommend_treatment") /\ ~Known(last.pollutant))
       => (last.outcome = "returned" /\ output_text.kind = "no_data")
    /\ (LastIs("explain_recommendation") /\ last.cause # "response")
       => (last.outcome = "returned" /\ explanation_out.kind = "markdown_warning")
    /\ (LastIs("extract_pdf_text") /\ pdf_input # None /\ ~pdf_input.empty
           /\ ~Parses(pdf_input))
       => (last.outcome = "raised" /\ last.parser)

C7_Witness ==
    /\ LastIs("extract_pdf_text")
    /\ pdf_input # None
    /\ ~pdf_input.empty
    /\ pdf_input.doc.readable
    /\ ~Parses(pdf_input)
    /\ last.outcome = "raised"
    /\ output_text.kind = "no_data"
    /\ explanation_out.kind = "markdown_warning"

\* C8: after any sequence of handler invocations treatment_db still has exactly the keys
\* lead, arsenic and chromium, each mapped to its literal record.
C8_TreatmentDbUnchanged ==
    /\ DOMAIN treatment_db = {Lead, Arsenic, Chromium}
    /\ treatment_db[Lead] = LeadRecord
    /\ treatment_db[Arsenic] = ArsenicRecord
    /\ treatment_db[Chromium] = ChromiumRecord

C8_Witness ==
    /\ LastIs("extract_pdf_text")
    /\ last.outcome = "raised"
    /\ output_table.kind = "DataFrame"
    /\ explanation_out.kind = "markdown_warning"
    /\ treatment_db[Chromium].efficiency = <<82, 87, 93>>

\* C9: an invocation of explain_recommendation issues exactly one request, succeeding or
\* failing; a failed request is not retried, and the invocation completes only when
\* that request returns or raises (there is no timeout that would end it otherwise).
C9_OneRequestPerInvocation ==
    /\ [](attempts <= 1 /\ (request # None => attempts = 1))
    /\ [][request # None => attempts' = attempts]_vars
    /\ [][(request # None /\ request' = None)
            => /\ last'.handler = "explain_recommendation"
               /\ explanation_out'.kind \in {"markdown", "markdown_warning"}]_vars
    /\ [][(last' # last /\ last'.handler = "explain_recommendation")
            => (request # None /\ request' = None /\ attempts = 1)]_vars

C9_Witness ==
    /\ LastIs("explain_recommendation")
    /\ last.cause = "APIConnectionError"
    /\ request = None
    /\ attempts = 1

LookupPanels == <<output_text, output_plot, output_table>>

\* C10: each handler writes only its own panels: the recommendation button the text,
\* chart and table, the explanation button the explanation, a file change the
\* extracted text.  So text, chart and table always come from one lookup: with the
\* "no data" message the chart and table are cleared.
C10_HandlersWriteOwnPanels ==
    /\ [][/\ LookupPanels' # LookupPanels
             => /\ last'.handler = "recommend_treatment"
                /\ UNCHANGED <<explanation_out, pdf_output>>
          /\ explanation_out' # explanation_out
             => /\ last'.handler = "explain_recommendation"
                /\ UNCHANGED <<LookupPanels, pdf_output>>
          /\ pdf_output' # pdf_output
             => /\ last'.handler = "extract_pdf_text"
                /\ UNCHANGED <<LookupPanels, explanation_out>>]_vars
    /\ [](/\ output_text.kind = "no_data" => (output_plot = None /\ output_table = None)
          /\ output_text = None => (output_plot = None /\ output_table = None)
          /\ output_text.kind = "summary"
             => /\ output_plot.kind = "figure"
                /\ output_table.kind = "DataFrame"
                /\ output_plot.x = output_text.methods
                /\ output_table.Method = output_text.methods)

C10_Witness ==
    /\ LastIs("recommend_treatment")
    /\ output_text.kind = "no_data"
    /\ output_plot = None
    /\ output_table = None
    /\ explanation_out.kind = "markdown"
    /\ Len(pdf_output) = 4

=============================================================================
